---- MODULE Spec2Model ----
(***************************************************************************)
(* Model of the .rrd stream decoder of re_log_encoding (decoder.rs) and of *)
(* the DataCell of re_log_types (data_cell.rs).  Spec is the decoder,       *)
(* SpecCell is the cell.                                                    *)
(*                                                                         *)
(* A stream is a raw header (magic, version) followed by a compressed      *)
(* body.  The decompressor is an external library: the body is modelled    *)
(* by the bytes the decompressing reader yields, by the way those bytes    *)
(* end (end of file or a decompression error) and by whether the           *)
(* decompressor can be opened.                                             *)
(*                                                                         *)
(* A 64-bit length is kept as two 32-bit halves [lo, hi] so that the       *)
(* conversion `as usize` keeps its width on a 32-bit target.               *)
(***************************************************************************)
EXTENDS Integers, Sequences, FiniteSets, TLC

VARIABLES
    target,     \* "native" | "wasm": which cfg(target_arch) build runs
    input,      \* the stream handed to Decoder::new
    state,      \* "unopened" | "streaming" | "header_failed"
    newResult,  \* what Decoder::new returned (and what it did on the way)
    dec,        \* the Decoder value: zdecoder position and reusable buffer
    items,      \* the items returned by the calls to next(), oldest first
    pulls,      \* per call to next(): what it read and which read failed
    twinVersion,\* version bytes of a second stream, otherwise identical
    twinResult, \* Decoder::new on the second stream
    twinDec,    \* the Decoder opened on the second stream
    twinItems,  \* the items the second Decoder returned
    crossResult,\* Decoder::new of the other target's build on the same stream
    crossDec,   \* the Decoder of the other target's build
    crossItems, \* the items the other target's Decoder returned
    cell,       \* the DataCell
    origin,     \* the constructor that built the cell and its input
    ret,        \* the last operation on the cell and what it returned
    debugAssertions, \* whether the build keeps debug_assert!
    active_frame,   \* RenderContext::active_frame
    inflight_queue_submissions, \* the submission indices in flight, oldest first
    renderers,      \* Renderers::renderers: the stored renderer of each type
    finishes,       \* how often each encoder the device created was finished
    creations,      \* how often create_renderer ran for each type
    submissions,    \* the number of queue.submit calls
    called,         \* before_submit called in this frame; begin_frame calls completed
    rret,           \* the last operation on the context and what it found
    life            \* the context is alive, panicked or dropped

decoderVars == <<target, input, state, newResult, dec, items, pulls,
                 twinVersion, twinResult, twinDec, twinItems,
                 crossResult, crossDec, crossItems>>

cellVars == <<cell, origin, ret, debugAssertions>>

renderVars == <<active_frame, inflight_queue_submissions, renderers, finishes,
                creations, submissions, called, rret, life>>

vars == <<decoderVars, cellVars, renderVars>>

----------------------------------------------------------------------------
(* Bounds of the model *)

MaxFrames == 2      \* frames in a generated body
MaxPayloadLen == 2  \* bytes in a generated payload
MaxPulls == 4       \* calls to next() on one Decoder

----------------------------------------------------------------------------
(* Bytes, lengths *)

\* the byte values the generated payloads are made of
Bytes == {0, 1}

\* b"RRF0"
Magic == <<82, 82, 70, 48>>

\* u64::from_le_bytes, kept as the two 32-bit halves of the value
FromLeBytes(b) ==
    [lo |-> b[1] + 256 * b[2] + 65536 * b[3] + 16777216 * b[4],
     hi |-> b[5] + 256 * b[6] + 65536 * b[7] + 16777216 * b[8]]

\* bits of usize on the target
UsizeBits(t) == IF t = "wasm" THEN 32 ELSE 64

\* `len as usize`: a 32-bit usize keeps the low half only
AsUsize(len, bits) ==
    IF bits = 64 THEN len ELSE [lo |-> len.lo, hi |-> 0]

\* to_le_bytes of a length below 2^31 with `hi` as its upper 32 bits
ToLeBytes(lo, hi) ==
    << lo % 256, (lo \div 256) % 256, (lo \div 65536) % 256,
       (lo \div 16777216) % 256,
       hi % 256, (hi \div 256) % 256, (hi \div 65536) % 256,
       (hi \div 16777216) % 256 >>

----------------------------------------------------------------------------
(* Messages and their serialization *)

\* A message is a small value, serialized as a marker byte followed by the
\* value.
Messages == {0, 1}

MsgTag == 1

\* rmp_serde::to_vec of a message (encoder side)
Serialize(m) == << MsgTag, m >>

NoMsg == -1

\* a deserializer that takes the marker byte for the value
DeserializeMarker(buf) ==
    IF Len(buf) >= 2 /\ buf[1] = MsgTag /\ buf[2] \in Messages
    THEN [ok |-> TRUE, msg |-> buf[1]]
    ELSE [ok |-> FALSE, msg |-> -1]

\* rmp_serde::from_read: decodes one value from the front of the buffer and
\* does not look at what follows it.
Deserialize(buf) ==
    IF Len(buf) >= 2 /\ buf[1] = MsgTag /\ buf[2] \in Messages
    THEN [ok |-> TRUE, msg |-> buf[2]]
    ELSE [ok |-> FALSE, msg |-> NoMsg]

----------------------------------------------------------------------------
(* Version compatibility check *)

\* env!("CARGO_PKG_VERSION") of the reader
LocalVersion == <<0, 3, 0>>

LegacyVersion == <<0, 2, 0>>

\* CrateVersion::from_bytes
FromBytes(b) == <<b[1], b[2], b[3]>>

\* CrateVersion::is_compatible_with
IsCompatibleWith(enc, loc) == enc[1] = loc[1] /\ loc[2] >= enc[2]

\* the version bytes parsed as they are, all-zero bytes included
EncodedVersionLiteral(b) == FromBytes(b)

\* the version warn_on_version_mismatch compares with the local one
EncodedVersion(b) ==
    IF b = <<0, 0, 0, 0>> THEN LegacyVersion ELSE FromBytes(b)

\* warn_on_version_mismatch: TRUE when the warning is logged; returns ()
WarnOnVersionMismatch(b) == ~IsCompatibleWith(EncodedVersion(b), LocalVersion)

----------------------------------------------------------------------------
(* Readers *)

\* a read that reports success when the source ends early, leaving zeros in
\* the part of the buffer it could not fill
ReadShortOk(bytes, pos, n) ==
    [ok |-> TRUE,
     data |-> [i \in 1 .. n |-> IF pos + i <= Len(bytes) THEN bytes[pos + i] ELSE 0],
     pos |-> IF pos + n <= Len(bytes) THEN pos + n ELSE Len(bytes)]

\* a read that, when the source ends early, starts over at the first byte
ReadExactRewind(bytes, pos, n) ==
    IF pos + n <= Len(bytes)
    THEN [ok |-> TRUE, data |-> SubSeq(bytes, pos + 1, pos + n), pos |-> pos + n]
    ELSE [ok |-> FALSE, data |-> SubSeq(bytes, pos + 1, Len(bytes)), pos |-> 0]

\* Read::read_exact of n bytes at position pos of a byte sequence: either
\* the n bytes, or a failure that has consumed what was left.
ReadExact(bytes, pos, n) ==
    IF pos + n <= Len(bytes)
    THEN [ok |-> TRUE, data |-> SubSeq(bytes, pos + 1, pos + n), pos |-> pos + n]
    ELSE [ok |-> FALSE, data |-> SubSeq(bytes, pos + 1, Len(bytes)),
          pos |-> Len(bytes)]

\* a payload read that, when it fails, puts the reader back in front of the
\* length prefix
ReadExactLenRewind(bytes, pos, len) ==
    LET r == IF len.hi = 0 THEN ReadExact(bytes, pos, len.lo)
             ELSE [ok |-> FALSE, data |-> << >>, pos |-> pos]
    IN IF r.ok THEN r
       ELSE [ok |-> FALSE, data |-> r.data, pos |-> IF pos >= 8 THEN pos - 8 ELSE 0]

\* read_exact of a payload whose length is a usize value
ReadExactLen(bytes, pos, len) ==
    IF len.hi = 0
    THEN ReadExact(bytes, pos, len.lo)
    ELSE [ok |-> FALSE, data |-> SubSeq(bytes, pos + 1, Len(bytes)),
          pos |-> Len(bytes)]

\* a resize that grows the buffer and never shrinks it
ResizeGrowOnly(buf, n) ==
    [i \in 1 .. (IF n > Len(buf) THEN n ELSE Len(buf)) |->
        IF i <= Len(buf) THEN buf[i] ELSE 0]

\* Vec::resize(len, 0) followed by a read into the vector: the bytes read
\* overwrite the front, the rest is what resize left there.
Resize(buf, n) == [i \in 1 .. n |-> IF i <= Len(buf) THEN buf[i] ELSE 0]

\* a read that leaves the buffer as resize left it
OverwriteNothing(buf, data) == buf

\* the read into the resized buffer
Overwrite(buf, data) ==
    [i \in 1 .. Len(buf) |-> IF i <= Len(data) THEN data[i] ELSE buf[i]]

----------------------------------------------------------------------------
(* Decoder::new *)

\* name of the DecodeError variant, which depends on the target
InitErr(t) == IF t = "wasm" THEN "RuzstdInit" ELSE "Zstd"

ReadErr(t) == IF t = "wasm" THEN "RuzstdRead" ELSE "Zstd"

NoVersion == << >>

\* &header != b"RRF0", comparing the first three bytes only
MagicMismatchShort(header) == SubSeq(header, 1, 3) # SubSeq(Magic, 1, 3)

\* &header != b"RRF0"
MagicMismatch(header) == header # Magic

\* Decoder::new turning an incompatible version into an error
DecoderNewVersionFatal(t, in) ==
    LET magic == ReadExact(in.header, 0, 4) IN
    IF ~magic.ok
    THEN [res |-> "Read", rawPos |-> magic.pos, version |-> NoVersion,
          compared |-> NoVersion, warned |-> FALSE, zopened |-> FALSE]
    ELSE IF MagicMismatch(magic.data)
    THEN [res |-> "NotAnRrd", rawPos |-> magic.pos, version |-> NoVersion,
          compared |-> NoVersion, warned |-> FALSE, zopened |-> FALSE]
    ELSE LET version == ReadExact(in.header, magic.pos, 4) IN
         IF ~version.ok
         THEN [res |-> "Read", rawPos |-> version.pos, version |-> NoVersion,
               compared |-> NoVersion, warned |-> FALSE, zopened |-> FALSE]
         ELSE IF WarnOnVersionMismatch(version.data)
         THEN [res |-> "IncompatibleVersion", rawPos |-> version.pos,
               version |-> version.data,
               compared |-> EncodedVersion(version.data),
               warned |-> TRUE, zopened |-> FALSE]
         ELSE [res |-> IF in.zinit THEN "Ok" ELSE InitErr(t),
               rawPos |-> version.pos, version |-> version.data,
               compared |-> EncodedVersion(version.data),
               warned |-> FALSE, zopened |-> in.zinit]

\* The result of Decoder::new on the stream `in`, with what it did on the
\* way: res is "Ok" or the DecodeError variant, rawPos the number of raw
\* bytes consumed, version the version bytes it read (if it got that far),
\* compared the version it compared with the local one, warned whether the version warning was logged, zopened whether the
\* decompressing reader was opened.
DecoderNew(t, in) ==
    LET magic == ReadExact(in.header, 0, 4) IN
    IF ~magic.ok
    THEN [res |-> "Read", rawPos |-> magic.pos, version |-> NoVersion,
          compared |-> NoVersion, warned |-> FALSE, zopened |-> FALSE]
    ELSE IF MagicMismatch(magic.data)
    THEN [res |-> "NotAnRrd", rawPos |-> magic.pos, version |-> NoVersion,
          compared |-> NoVersion, warned |-> FALSE, zopened |-> FALSE]
    ELSE LET version == ReadExact(in.header, magic.pos, 4) IN
         IF ~version.ok
         THEN [res |-> "Read", rawPos |-> version.pos, version |-> NoVersion,
               compared |-> NoVersion, warned |-> FALSE, zopened |-> FALSE]
         ELSE [res |-> IF in.zinit THEN "Ok" ELSE InitErr(t),
               rawPos |-> version.pos, version |-> version.data,
               compared |-> EncodedVersion(version.data),
               warned |-> WarnOnVersionMismatch(version.data),
               zopened |-> in.zinit]

\* Self { zdecoder, buffer: vec![] }
NewDecoder == [zpos |-> 0, buffer |-> << >>, bufferLen |-> [lo |-> 0, hi |-> 0]]

----------------------------------------------------------------------------
(* Decoder::next *)

\* None
ItemNone == [kind |-> "none", msg |-> NoMsg, err |-> ""]

\* Some(Ok(msg))
ItemOk(m) == [kind |-> "ok", msg |-> m, err |-> ""]

\* an error turned into the end of the stream
ItemErrAsNone(e) == ItemNone

\* Some(Err(e))
ItemErr(e) == [kind |-> "err", msg |-> NoMsg, err |-> e]

\* a failed length read reported as an error unless nothing at all was left
LenReadFailedStrict(t, avail) ==
    IF avail = 0 THEN ItemNone ELSE [kind |-> "err", msg |-> NoMsg, err |-> ReadErr(t)]

\* `self.zdecoder.read_exact(&mut len).ok()?`: what next() returns when the
\* length prefix cannot be read
LenReadFailed(t, avail) == ItemNone

NoLen == [lo |-> 0, hi |-> 0]

\* One call to next() on decoder d over the decompressed body: the item it
\* returns, the decoder afterwards, and a record of the call: start is the
\* body position before the call, stop the position after it, avail the
\* bytes left at start, prefix the
\* 64-bit value of the length prefix, len the usize it was converted to,
\* fail the read that failed ("len", "payload", "deser" or "none") and io
\* how the failed read ended.
DecoderNext(t, body, d) ==
    LET avail == Len(body.bytes) - d.zpos
        io == IF body.end = "eof" THEN "UnexpectedEof" ELSE "Decompress"
        lenRead == ReadExact(body.bytes, d.zpos, 8)
    IN
    IF ~lenRead.ok
    THEN [item |-> LenReadFailed(t, avail),
          dec |-> [d EXCEPT !.zpos = lenRead.pos],
          pull |-> [start |-> d.zpos, stop |-> lenRead.pos, avail |-> avail,
                    prefix |-> NoLen,
                    len |-> NoLen, fail |-> "len", io |-> io]]
    ELSE LET prefix == FromLeBytes(lenRead.data)
             len == AsUsize(prefix, UsizeBits(t))
             resized == Resize(d.buffer, IF len.hi = 0 THEN len.lo ELSE 0)
             payload == ReadExactLen(body.bytes, lenRead.pos, len)
             filled == IF len.hi = 0 THEN Overwrite(resized, payload.data)
                       ELSE payload.data
             msg == Deserialize(filled)
         IN
         IF ~payload.ok
         THEN [item |-> ItemErr(ReadErr(t)),
               dec |-> [zpos |-> payload.pos, buffer |-> filled, bufferLen |-> len],
               pull |-> [start |-> d.zpos, stop |-> payload.pos,
                         avail |-> avail, prefix |-> prefix,
                         len |-> len, fail |-> "payload", io |-> io]]
         ELSE [item |-> IF msg.ok THEN ItemOk(msg.msg) ELSE ItemErr("MsgPack"),
               dec |-> [zpos |-> payload.pos, buffer |-> filled, bufferLen |-> len],
               pull |-> [start |-> d.zpos, stop |-> payload.pos,
                         avail |-> avail, prefix |-> prefix,
                         len |-> len,
                         fail |-> IF msg.ok THEN "none" ELSE "deser",
                         io |-> ""]]

----------------------------------------------------------------------------
(* Encoder (encoder.rs): magic, local version, then per message an 8-byte   *)
(* little-endian length and the serialized message.                         *)

RECURSIVE Concat(_)
Concat(ss) == IF ss = << >> THEN << >> ELSE Head(ss) \o Concat(Tail(ss))

\* CrateVersion::to_bytes
ToBytes(v) == <<v[1], v[2], v[3], 0>>

EncodeFrame(m) == ToLeBytes(Len(Serialize(m)), 0) \o Serialize(m)

Encode(msgs) ==
    [header |-> Magic \o ToBytes(LocalVersion),
     zinit |-> TRUE,
     body |-> [bytes |-> Concat([i \in 1 .. Len(msgs) |-> EncodeFrame(msgs[i])]),
               end |-> "eof"]]

----------------------------------------------------------------------------
(* The streams the decoder is run on *)

SeqsUpTo(S, n) == UNION {[1 .. k -> S] : k \in 0 .. n}

\* the payloads of the generated frames: every byte sequence of up to two
\* bytes (serialized messages, truncated ones, ones with a wrong marker) and
\* serialized messages followed by padding
Payloads ==
    {p \in SeqsUpTo(Bytes, 2) \cup
           {Serialize(m) \o [i \in 1 .. k |-> 0] : m \in Messages, k \in 1 .. MaxPayloadLen} :
        Len(p) <= MaxPayloadLen}

\* upper 32 bits of a generated length prefix
HiValues == {0, 1}

\* the payloads that follow a length prefix of 2^32 or more
HiPayloads == {<< >>, Serialize(0)}

\* a length prefix that is the length of the payload, or that length plus
\* hi * 2^32
Frames ==
    {ToLeBytes(Len(p), 0) \o p : p \in Payloads}
    \cup {ToLeBytes(Len(p), hi) \o p : p \in HiPayloads, hi \in HiValues}

Prefixes(s) == {SubSeq(s, 1, c) : c \in 0 .. Len(s)}

\* the bodies made of the frames fs, the last of them cut off anywhere
CutLast(fs) ==
    IF fs = << >> THEN {<< >>}
    ELSE {Concat(SubSeq(fs, 1, Len(fs) - 1)) \o SubSeq(fs[Len(fs)], 1, c) :
             c \in 1 .. Len(fs[Len(fs)])}

\* every body that is a sequence of frames cut off anywhere
BodyBytes == UNION {CutLast(fs) : fs \in SeqsUpTo(Frames, MaxFrames)}

Ends == {"eof", "corrupt"}

VersionBytes == {<<0, 0, 0, 0>>, ToBytes(LocalVersion), <<1, 0, 0, 0>>}

\* the version bytes of the twin stream: the next ones in a cycle through
\* VersionBytes, so that agreement of every stream with its twin is
\* agreement between any two versions
TwinVersionOf(v) ==
    IF v = <<0, 0, 0, 0>> THEN ToBytes(LocalVersion)
    ELSE IF v = ToBytes(LocalVersion) THEN <<1, 0, 0, 0>>
    ELSE <<0, 0, 0, 0>>

BadMagics == {<<82, 82, 70, 49>>, <<0, 0, 0, 0>>}

GoodHeaders == {Magic \o v : v \in VersionBytes}

\* headers that are cut short or carry another magic
BadHeaders ==
    (UNION {Prefixes(h) : h \in GoodHeaders} \ GoodHeaders)
    \cup {m \o v : m \in BadMagics, v \in VersionBytes}

SmallBodies == {<< >>, EncodeFrame(0)}

\* the bodies the encoder writes
EncodedBodies == {Encode(msgs).body.bytes : msgs \in SeqsUpTo(Messages, MaxFrames)}

\* The streams: every generated body behind the header of a legacy stream,
\* the encoder's bodies and the small ones behind every good header, and the
\* small ones behind a bad header or a decompressor that cannot be opened.
Inputs ==
    {[header |-> Magic \o <<0, 0, 0, 0>>, zinit |-> TRUE,
      body |-> [bytes |-> b, end |-> e]] : b \in BodyBytes, e \in Ends}
    \cup
    {[header |-> h, zinit |-> TRUE, body |-> [bytes |-> b, end |-> e]] :
        h \in GoodHeaders, b \in EncodedBodies \cup SmallBodies, e \in Ends}
    \cup
    {[header |-> h, zinit |-> z, body |-> [bytes |-> b, end |-> "eof"]] :
        h \in BadHeaders, z \in BOOLEAN, b \in SmallBodies}
    \cup
    {[header |-> h, zinit |-> FALSE, body |-> [bytes |-> b, end |-> "eof"]] :
        h \in GoodHeaders, b \in SmallBodies}

\* the same stream with other version bytes
WithVersion(in, v) ==
    IF Len(in.header) = 8
    THEN [in EXCEPT !.header = SubSeq(in.header, 1, 4) \o v]
    ELSE in

----------------------------------------------------------------------------
(* DataCell: a component name and an arrow array *)

MaxCellLen == 2

\* array lengths are kept in base 2^31, len = hi * 2^31 + lo, so that lengths
\* beyond the 32-bit ranges are represented exactly
SmallLen(n) == [hi |-> 0, lo |-> n]

\* `x as u32` of a usize: the value modulo 2^32
AsU32(n) == [hi |-> n.hi % 2, lo |-> n.lo]

Numeric == {"Int8", "Int16", "Int32", "Int64",
            "UInt8", "UInt16", "UInt32", "UInt64", "Float32", "Float64"}
Floats == {"Float32", "Float64"}
DataTypes == Numeric \cup {"Utf8", "Null"}

\* the float that is not ordered with and not equal to any float
NaN == 7

\* the values of a slot; of a Utf8 slot, the index of its string
SlotValues(dt) == IF dt \in Floats THEN {0, 1, NaN} ELSE {0, 1}

\* PartialOrd::lt and PartialEq::eq of the native type of a datatype
Lt(dt, a, b) == IF dt \in Floats /\ (a = NaN \/ b = NaN) THEN FALSE ELSE a < b
ValueEq(dt, a, b) == IF dt \in Floats /\ (a = NaN \/ b = NaN) THEN FALSE ELSE a = b

\* Option<Bitmap>: None, or Some(bits) with a bit per slot
NoValidity == [some |-> FALSE, bits |-> << >>]
SomeValidity(bits) == [some |-> TRUE, bits |-> bits]

\* Bitmap::unset_bits
UnsetBits(bits) == Cardinality({i \in 1 .. Len(bits) : ~bits[i]})

\* an arrow array: its datatype, its length, its value buffer and its validity
\* bitmap. A NullArray has a length and neither buffer nor bitmap. Of an array
\* of 2^31 elements or more the buffer is all zero and is not spelled out.
Array(dt, len, values, validity) ==
    [datatype |-> dt, len |-> len, values |-> values, validity |-> validity]

\* Array::len, Array::is_empty, Array::data_type, Array::validity
ArrayLen(a) == a.len
ArrayIsEmpty(a) == a.len.hi = 0 /\ a.len.lo = 0

\* Array::null_count: every slot of a Null array, else the unset bits
NullCount(a) ==
    IF a.datatype = "Null" THEN a.len
    ELSE SmallLen(IF a.validity.some THEN UnsetBits(a.validity.bits) ELSE 0)

\* whether slot i of an array is null
IsNullSlot(a, i) ==
    a.datatype = "Null" \/ (a.validity.some /\ ~a.validity.bits[i])

\* arrow2::array::new_empty_array
NewEmptyArray(dt) == Array(dt, SmallLen(0), << >>, NoValidity)

\* the component types: Component::name and Component::data_type
Components ==
    { [name |-> "rerun.instance_key", datatype |-> "UInt64"],
      [name |-> "rerun.radius", datatype |-> "Float32"],
      [name |-> "rerun.label", datatype |-> "Utf8"] }

ComponentNames == {c.name : c \in Components}

\* a native value of component type C, and an absent one
Native(C, v) == [c |-> C.name, v |-> v]
SomeNative(C, v) == [some |-> TRUE, c |-> C.name, v |-> v]
NoneNative(C) == [some |-> FALSE, c |-> C.name, v |-> 0]

\* TryIntoArrow::try_into_arrow of native values
IntoArrow(C, natives) ==
    Array(C.datatype, SmallLen(Len(natives)),
          [i \in 1 .. Len(natives) |-> natives[i].v], NoValidity)

\* TryIntoArrow::try_into_arrow of optional native values: an absent value
\* leaves a default in the buffer and an unset bit in the bitmap, which
\* exists once a value was absent
IntoArrowSparse(C, options) ==
    Array(C.datatype, SmallLen(Len(options)),
          [i \in 1 .. Len(options) |-> IF options[i].some THEN options[i].v ELSE 0],
          IF \E i \in 1 .. Len(options) : ~options[i].some
          THEN SomeValidity([i \in 1 .. Len(options) |-> options[i].some])
          ELSE NoValidity)

\* struct DataCell { name, values }
NoCell == [name |-> "", values |-> NewEmptyArray("Null")]

\* DataCell::try_from_arrow, from_arrow
FromArrow(name, array) == [name |-> name, values |-> array]

\* DataCell::try_from_native, from_native, from_component, From<&[C]>
FromNative(C, natives) == FromArrow(C.name, IntoArrow(C, natives))

\* DataCell::try_from_native_sparse, from_native_sparse, from_component_sparse
FromNativeSparse(C, options) == FromArrow(C.name, IntoArrowSparse(C, options))

\* DataCell::try_from_arrow_empty, from_arrow_empty
FromArrowEmpty(name, dt) == [name |-> name, values |-> NewEmptyArray(dt)]

\* DataCell::from_native_empty
FromNativeEmpty(C) == FromArrowEmpty(C.name, C.datatype)

\* a clone that loses the name
CloneUnnamed(c) == [name |-> "", values |-> c.values]

\* Clone::clone of a cell: the name and a shallow clone of the array
Clone(c) == [name |-> c.name, values |-> c.values]

\* DataCell::as_arrow (shallow clone), DataCell::as_arrow_ref
AsArrow(c) == c.values
AsArrowRef(c) == c.values

\* DataCell::component_name, DataCell::datatype
ComponentNameOf(c) == c.name
Datatype(c) == c.values.datatype

\* DataCell::num_instances: `self.values.len() as u32`
NumInstances(c) == AsU32(ArrayLen(c.values))

\* DataCell::is_empty
IsEmpty(c) == ArrayIsEmpty(c.values)

\* DataCell::is_dense
IsDense(c) ==
    IF c.values.validity.some
    THEN UnsetBits(c.values.validity.bits) = 0
    ELSE TRUE

\* a scan that accepts equal neighbours
IsSortedPrimitiveNonStrict(a) ==
    /\ a.len.hi = 0
    /\ \A i \in 1 .. Len(a.values) - 1 :
          ~Lt(a.datatype, a.values[i + 1], a.values[i])

\* is_sorted_and_unique_primitive: values().windows(2).all(|v| v[0] < v[1]);
\* the unspelled buffer of a long array holds equal neighbours
IsSortedAndUniquePrimitive(a) ==
    /\ a.len.hi = 0
    /\ \A i \in 1 .. Len(a.values) - 1 :
          Lt(a.datatype, a.values[i], a.values[i + 1])

\* results of the fallible and the panicking operations
Ok(v) == [kind |-> "ok", val |-> v]
UnsupportedDatatype(dt) == [kind |-> "err", err |-> "UnsupportedDatatype", datatype |-> dt]
ArrowError == [kind |-> "err", err |-> "Arrow"]
Panic == [kind |-> "panic"]

\* a sort check that answers Ok(false) for the types it does not know
IsSortedAndUniqueGuess(c, debug) ==
    IF debug /\ ~IsDense(c) THEN Panic
    ELSE IF c.values.datatype \in Numeric
         THEN Ok(IsSortedAndUniquePrimitive(c.values))
         ELSE Ok(FALSE)

\* DataCell::is_sorted_and_unique; debug is whether the build keeps
\* debug_assert!
IsSortedAndUnique(c, debug) ==
    IF debug /\ ~IsDense(c) THEN Panic
    ELSE IF c.values.datatype \in Numeric
         THEN Ok(IsSortedAndUniquePrimitive(c.values))
         ELSE UnsupportedDatatype(c.values.datatype)

\* Offsets::<i32>::try_from_lengths(once(n)): the offsets 0 and n, or an
\* overflow error when n is above i32::MAX
TryFromLengths(n) ==
    IF n.hi > 0 THEN [kind |-> "err", err |-> "Overflow"]
    ELSE Ok(<<SmallLen(0), n>>)

\* DataCell::as_arrow_monolist: the ListArray of one element, or the panic of
\* the unwrap
AsArrowMonolist(c) ==
    LET offsets == TryFromLengths(NumInstances(c))
    IN IF offsets.kind = "err" THEN Panic
       ELSE Ok([datatype |-> <<"List", Datatype(c)>>,
                offsets |-> offsets.val,
                values |-> AsArrow(c),
                validity |-> NoValidity])

\* a deserialization that does not look at the datatype
TryAsNativeUnchecked(c, C) ==
    Ok([comp |-> C, pos |-> 0, yielded |-> << >>])

\* arrow_array_deserialize_iterator::<C>: an iterator at the first slot, or
\* an error when the array's datatype is not C's
TryAsNative(c, C) ==
    IF C.datatype # c.values.datatype THEN ArrowError
    ELSE Ok([comp |-> C, pos |-> 0, yielded |-> << >>])

\* Iterator::next of that iterator: the native value of the next slot, whose
\* deserialization panics on a null slot
IterNext(c, it) ==
    IF it.pos >= Len(c.values.values)
    THEN [it |-> it, item |-> [some |-> FALSE], panic |-> FALSE]
    ELSE IF IsNullSlot(c.values, it.pos + 1)
         THEN [it |-> it, item |-> [some |-> FALSE], panic |-> TRUE]
         ELSE LET v == Native(it.comp, c.values.values[it.pos + 1])
              IN [it |-> [it EXCEPT !.pos = @ + 1, !.yielded = Append(@, v)],
                  item |-> [some |-> TRUE, val |-> v], panic |-> FALSE]

\* an equality that compares the arrays and not the names
CellEqArraysOnly(a, b) ==
    /\ a.values.datatype = b.values.datatype
    /\ a.values.len = b.values.len
    /\ \A i \in 1 .. Len(a.values.values) :
          /\ IsNullSlot(a.values, i) = IsNullSlot(b.values, i)
          /\ ~IsNullSlot(a.values, i) =>
                ValueEq(a.values.datatype, a.values.values[i], b.values.values[i])

\* arrow2::array::equal of two arrays: the datatypes, the lengths and, slot by
\* slot, the optional values
ArrayEq(x, y) ==
    /\ x.datatype = y.datatype
    /\ x.len = y.len
    /\ \A i \in 1 .. Len(x.values) :
          /\ IsNullSlot(x, i) = IsNullSlot(y, i)
          /\ ~IsNullSlot(x, i) => ValueEq(x.datatype, x.values[i], y.values[i])

\* #[derive(PartialEq)] of DataCell: the names, then the arrays
CellEq(a, b) == a.name = b.name /\ ArrayEq(a.values, b.values)

\* no component type
NoComponent == [name |-> "", datatype |-> "Null"]

\* how the cell was built: the constructor, its component type, the length of
\* its input, the number of absent input elements, the native input, and the
\* cell as the constructor returned it
Origin(ctor, C, n, absent, given) ==
    [ctor |-> ctor, comp |-> C, n |-> n, absent |-> absent, input |-> given,
     built |-> NoCell]
NoOrigin == Origin("", NoComponent, SmallLen(0), 0, << >>)

\* the last operation on the cell and what it returned
Ret(op, res) == [op |-> op, res |-> res, panicked |-> FALSE]
Panicked(op) == [op |-> op, res |-> Panic, panicked |-> TRUE]
NoRet == Ret("", 0)

\* no cell is in use
CellIdle ==
    /\ cell = NoCell
    /\ origin = NoOrigin
    /\ ret = NoRet
    /\ debugAssertions = FALSE

----------------------------------------------------------------------------
(* RenderContext: the frame-global encoder, the queue submissions in flight *)
(* and the renderers                                                        *)

MaxFrameIndex == 6

MAX_NUM_INFLIGHT_QUEUE_SUBMISSIONS == 4

\* Option<wgpu::CommandEncoder>: None, or the n-th encoder the device created
NoEncoder == 0

\* a frame context whose first frame has the index 1
ActiveFrameContextFromOne(encoder, index) ==
    [before_view_builder_encoder |-> encoder,
     per_frame_data_helper |-> {},
     frame_index |-> index + 1]

\* ActiveFrameContext { before_view_builder_encoder, per_frame_data_helper:
\* TypeMap::new(), frame_index }
ActiveFrameContext(encoder, index) ==
    [before_view_builder_encoder |-> encoder,
     per_frame_data_helper |-> {},
     frame_index |-> index]

\* the entries user code puts into per_frame_data_helper
PerFrameData == {"data"}

\* the renderer types; the mesh renderer is the one RenderContext::new
\* creates for its MeshManager
RendererTypes == {"MeshRenderer", "RectangleRenderer", "LineRenderer"}
NoRenderer == 0

\* an or_insert_with that runs its closure on every call
OrInsertAlways(map, R, created) ==
    [map |-> [map EXCEPT ![R] = created + 1], ran |-> TRUE]

\* TypeMap::entry().or_insert_with(create_renderer): the stored renderer, or
\* the one create_renderer returns, stored; created is the number of
\* renderers of that type created so far
OrInsertWith(map, R, created) ==
    IF map[R] # NoRenderer
    THEN [map |-> map, ran |-> FALSE]
    ELSE [map |-> [map EXCEPT ![R] = created + 1], ran |-> TRUE]

\* Renderers::get
RenderersGet(map, R) == map[R]

\* a take that leaves the encoder where it is
TakeKeep(encoder) == [taken |-> encoder, left |-> encoder]

\* Option::take of the frame-global encoder
Take(encoder) == [taken |-> encoder, left |-> NoEncoder]

\* CommandEncoder::finish of encoder e, counted per encoder
Finish(counts, e) == [counts EXCEPT ![e] = @ + 1]

\* Drop for FrameGlobalCommandEncoder: finishes the encoder if one is pending
DropEncoder(counts, encoder) ==
    IF encoder # NoEncoder THEN Finish(counts, encoder) ELSE counts

\* a get that hands out an encoder that is not there
EncoderGetUnchecked(encoder) == [panic |-> FALSE, encoder |-> encoder]

\* FrameGlobalCommandEncoder::get: the encoder, or the panic of expect
EncoderGet(encoder) ==
    IF encoder = NoEncoder THEN [panic |-> TRUE, encoder |-> NoEncoder]
    ELSE [panic |-> FALSE, encoder |-> encoder]

\* an assertion that never fails
AssertAnyFrame(index) == TRUE

\* assert!(self.active_frame.frame_index == 0) of begin_frame
AssertFirstFrame(index) == index = 0

\* no submission was waited for
NoSubmission == 0

\* a poll that removes the newest submissions
PollDeviceFromBack(t, subs) ==
    IF t = "wasm" THEN [subs |-> subs, waited |-> NoSubmission]
    ELSE LET n == IF Len(subs) > MAX_NUM_INFLIGHT_QUEUE_SUBMISSIONS
                  THEN Len(subs) - MAX_NUM_INFLIGHT_QUEUE_SUBMISSIONS ELSE 0
         IN [subs |-> SubSeq(subs, 1, Len(subs) - n),
             waited |-> IF n > 0 THEN subs[Len(subs)] ELSE NoSubmission]

\* RenderContext::poll_device on target t: nothing on wasm; else drains the
\* first len.saturating_sub(4) submissions and waits for the last of them
PollDevice(t, subs) ==
    IF t = "wasm" THEN [subs |-> subs, waited |-> NoSubmission]
    ELSE LET n == IF Len(subs) > MAX_NUM_INFLIGHT_QUEUE_SUBMISSIONS
                  THEN Len(subs) - MAX_NUM_INFLIGHT_QUEUE_SUBMISSIONS ELSE 0
         IN [subs |-> SubSeq(subs, n + 1, Len(subs)),
             waited |-> IF n > 0 THEN subs[n] ELSE NoSubmission]

\* RenderContext::before_submit on the encoder, the submissions in flight,
\* the finish counts and the number of queue submissions so far: takes the
\* encoder and, if there was one, finishes it and pushes its submission
BeforeSubmit(encoder, subs, counts, submitted) ==
    LET t == Take(encoder)
    IN IF t.taken # NoEncoder
       THEN [encoder |-> t.left, subs |-> Append(subs, submitted + 1),
             counts |-> Finish(counts, t.taken), submitted |-> submitted + 1]
       ELSE [encoder |-> t.left, subs |-> subs, counts |-> counts,
             submitted |-> submitted]

\* what the last operation on the context found and returned: the frame
\* index, the encoder, the submissions and whether before_submit had been
\* called in the frame before the operation, the submissions poll_device
\* found, the submission it waited for, the renderer type asked for
RenderRet(op, res) ==
    [op |-> op, res |-> res, panicked |-> FALSE,
     index |-> 0, encoder |-> NoEncoder, subs |-> << >>, submitCalled |-> FALSE,
     polled |-> << >>, waited |-> NoSubmission, renderer |-> "",
     data |-> {}]

\* RenderContext::new: the mesh renderer created, nothing in flight, frame 0
\* with the first encoder pending
RenderIdle ==
    /\ active_frame = ActiveFrameContext(1, 0)
    /\ inflight_queue_submissions = << >>
    /\ renderers = [R \in RendererTypes |->
                      IF R = "MeshRenderer"
                      THEN OrInsertWith([Q \in RendererTypes |-> NoRenderer],
                                        "MeshRenderer", 0).map[R]
                      ELSE NoRenderer]
    /\ finishes = <<0>>
    /\ creations = [R \in RendererTypes |-> IF R = "MeshRenderer" THEN 1 ELSE 0]
    /\ submissions = 0
    /\ called = [before_submit |-> FALSE, begun |-> 0]
    /\ rret = RenderRet("new", 0)
    /\ life = "alive"

----------------------------------------------------------------------------
(* The state machine *)

\* the build for the other target architecture
OtherTarget(t) == IF t = "wasm" THEN "native" ELSE "wasm"

NoResult == [res |-> "", rawPos |-> 0, version |-> NoVersion,
             compared |-> NoVersion, warned |-> FALSE, zopened |-> FALSE]

Init ==
    /\ target \in {"native", "wasm"}
    /\ input \in Inputs
    /\ state = "unopened"
    /\ newResult = NoResult
    /\ dec = NewDecoder
    /\ items = << >>
    /\ pulls = << >>
    /\ twinVersion = (IF Len(input.header) = 8
                      THEN TwinVersionOf(SubSeq(input.header, 5, 8))
                      ELSE <<0, 0, 0, 0>>)
    /\ twinResult = NoResult
    /\ twinDec = NewDecoder
    /\ twinItems = << >>
    /\ crossResult = NoResult
    /\ crossDec = NewDecoder
    /\ crossItems = << >>
    /\ CellIdle
    /\ RenderIdle

\* Decoder::new(read), on the stream and on its twin, by both builds
New ==
    /\ state = "unopened"
    /\ newResult' = DecoderNew(target, input)
    /\ state' = IF newResult'.res = "Ok" THEN "streaming" ELSE "header_failed"
    /\ dec' = NewDecoder
    /\ twinResult' = DecoderNew(target, WithVersion(input, twinVersion))
    /\ twinDec' = NewDecoder
    /\ crossResult' = DecoderNew(OtherTarget(target), input)
    /\ crossDec' = NewDecoder
    /\ UNCHANGED <<target, input, items, pulls, twinVersion, twinItems, crossItems>>
    /\ UNCHANGED <<cellVars, renderVars>>

\* decoder.next(), on the decoder, on its twin and on the other target's
Next_ ==
    /\ state = "streaming"
    /\ Len(items) < MaxPulls
    /\ LET r == DecoderNext(target, input.body, dec)
           tw == DecoderNext(target, input.body, twinDec)
           cr == DecoderNext(OtherTarget(target), input.body, crossDec)
       IN /\ dec' = r.dec
          /\ items' = Append(items, r.item)
          /\ pulls' = Append(pulls, r.pull)
          /\ IF twinResult.res = "Ok"
             THEN twinDec' = tw.dec /\ twinItems' = Append(twinItems, tw.item)
             ELSE UNCHANGED <<twinDec, twinItems>>
          /\ IF crossResult.res = "Ok"
             THEN crossDec' = cr.dec /\ crossItems' = Append(crossItems, cr.item)
             ELSE UNCHANGED <<crossDec, crossItems>>
    /\ UNCHANGED <<target, input, state, newResult, twinVersion, twinResult,
                   crossResult>>
    /\ UNCHANGED <<cellVars, renderVars>>

Next == New \/ Next_

Spec == Init /\ [][Next]_vars

----------------------------------------------------------------------------
(* Properties of the decoder *)

Opened == state # "unopened"

BeginsWithMagic(in) == Len(in.header) >= 4 /\ SubSeq(in.header, 1, 4) = Magic

MsgSeqs == SeqsUpTo(Messages, MaxFrames)

\* C1: round trip.  When the stream is the encoding of a sequence of
\* messages, Decoder::new succeeds and the pulls return exactly those
\* messages, in order, as Ok items, and None from then on; no item is an Err.
C1_RoundTrip ==
    \A msgs \in MsgSeqs :
        (input = Encode(msgs) /\ Opened) =>
            /\ newResult.res = "Ok"
            /\ \A i \in 1 .. Len(items) :
                  items[i] = IF i <= Len(msgs) THEN ItemOk(msgs[i]) ELSE ItemNone

\* two different messages were encoded, both were pulled and the pull after
\* them returned None
C1_Witness ==
    \E msgs \in MsgSeqs :
        /\ Len(msgs) = 2 /\ msgs[1] # msgs[2]
        /\ input = Encode(msgs)
        /\ Len(items) = 3
        /\ items[3] = ItemNone

\* C2 as stated: every stream that does not begin with "RRF0" makes
\* Decoder::new return NotAnRrd, with no decoder and no message.
C2_MagicCheckAnyStream ==
    (Opened /\ ~BeginsWithMagic(input)) =>
        /\ newResult.res = "NotAnRrd"
        /\ state = "header_failed"
        /\ items = << >>

\* C2, amended: a stream of at least 4 bytes whose first 4 bytes are not
\* "RRF0" makes Decoder::new return NotAnRrd; a stream shorter than 4 bytes
\* makes it return the Read error; in both cases there is no decoder, no
\* message is decoded and Streaming is never entered.
C2_MagicCheck ==
    (Opened /\ ~BeginsWithMagic(input)) =>
        /\ newResult.res = IF Len(input.header) >= 4 THEN "NotAnRrd" ELSE "Read"
        /\ state = "header_failed"
        /\ items = << >>
        /\ ~newResult.zopened

C2_Witness ==
    /\ Opened
    /\ Len(input.header) = 8
    /\ SubSeq(input.header, 1, 3) = SubSeq(Magic, 1, 3)
    /\ newResult.res = "NotAnRrd"

HeaderErrors == {"Read", "NotAnRrd", InitErr(target)}

\* C3: a header-validation failure (short read of the magic, wrong magic,
\* short read of the version, decompressor that cannot be opened) makes
\* Decoder::new return one error and no decoder, so no item is ever
\* yielded; the version is read only after the magic matched, and the
\* decompressing reader is opened only after both header reads succeeded.
C3_HeaderFailure ==
    Opened =>
        /\ (Len(input.header) < 8 \/ ~BeginsWithMagic(input) \/ ~input.zinit)
              => newResult.res \in HeaderErrors
        /\ newResult.res # "Ok"
              => newResult.res \in HeaderErrors /\ state = "header_failed"
                 /\ items = << >> /\ ~newResult.zopened
        /\ newResult.rawPos > 4 => BeginsWithMagic(input)
        /\ newResult.version # NoVersion
              => BeginsWithMagic(input) /\ newResult.rawPos = 8
        /\ (newResult.zopened \/ newResult.res = InitErr(target))
              => newResult.rawPos = 8 /\ newResult.version # NoVersion

\* the version bytes were cut short after a matching magic
C3_Witness ==
    /\ Opened
    /\ BeginsWithMagic(input) /\ Len(input.header) \in 5 .. 7
    /\ newResult.res = "Read"
    /\ state = "header_failed"

\* C4: the version bytes change neither the result of Decoder::new nor the
\* items later returned by next(): a stream and the same stream with other
\* version bytes give the same result and the same items, and the version
\* check adds a warning at most.
C4_VersionNeverBlocks ==
    Opened =>
        /\ twinResult.res = newResult.res
        /\ twinItems = items
        /\ twinDec = dec
        /\ newResult.warned => newResult.res \in {"Ok", InitErr(target)}

\* one of the two streams logged the warning, the other did not, and both
\* decoders returned a message
C4_Witness ==
    /\ state = "streaming"
    /\ newResult.warned # twinResult.warned
    /\ \E i \in 1 .. Len(items) : items[i].kind = "ok"

\* C5: all-zero version bytes decode without error and are compared as
\* 0.2.0, not as 0.0.0; any other version bytes are compared as the version
\* they spell.
C5_LegacySentinel ==
    (Opened /\ newResult.version # NoVersion) =>
        /\ newResult.version = <<0, 0, 0, 0>> =>
              /\ newResult.compared = <<0, 2, 0>>
              /\ input.zinit => newResult.res = "Ok"
        /\ newResult.version # <<0, 0, 0, 0>> =>
              newResult.compared = <<newResult.version[1], newResult.version[2],
                                     newResult.version[3]>>

C5_Witness ==
    /\ state = "streaming"
    /\ newResult.version = <<0, 0, 0, 0>>
    /\ \E i \in 1 .. Len(items) : items[i].kind = "ok"

----------------------------------------------------------------------------
(* Failures while streaming *)

Pulled == 1 .. Len(items)

\* the bytes of the body from position from + 1 to position to
BodySlice(from, to) == SubSeq(input.body.bytes, from + 1, to)

\* A read or a deserialization failed during the pull: the payload read or
\* the deserialization failed, or the length prefix could not be read
\* because the body was cut inside it or the decompressor reported an error
\* (a body that ends exactly at a frame boundary is a clean end).
PullFailed(p) ==
    \/ p.fail \in {"payload", "deser"}
    \/ p.fail = "len" /\ (p.avail > 0 \/ p.io = "Decompress")

\* C6 as stated: every failure during a pull, the length prefix included, is
\* the Err value of that pull.
C6_EveryFailureSurfaced ==
    \A i \in Pulled : PullFailed(pulls[i]) => items[i].kind = "err"

\* C6, amended: a failure while reading the payload and a deserialization
\* failure are the Err value of that pull (the read error and the MsgPack
\* error); a failure while reading the length prefix is not surfaced, that
\* pull returns None; no failed read is retried: the next pull starts where
\* the failed one stopped.
C6_PayloadFailureSurfaced ==
    \A i \in Pulled :
        /\ pulls[i].fail = "payload" =>
              items[i].kind = "err" /\ items[i].err = ReadErr(target)
        /\ pulls[i].fail = "deser" =>
              items[i].kind = "err" /\ items[i].err = "MsgPack"
        /\ pulls[i].fail = "len" => items[i].kind = "none"
        /\ pulls[i].fail = "none" => items[i].kind = "ok"
        /\ i > 1 => pulls[i].start = pulls[i - 1].stop

\* one pull failed on deserialization, a later one on its payload, and
\* both returned an Err
C6_Witness ==
    \E i, j \in Pulled :
        /\ i < j
        /\ pulls[i].fail = "deser" /\ items[i].kind = "err"
        /\ pulls[j].fail = "payload" /\ items[j].kind = "err"

\* C7: with 0 to 7 bytes left in the body, next() returns None, never an
\* Err: a clean end and a truncated length prefix look the same.
C7_ShortLengthIsNone ==
    \A i \in Pulled : pulls[i].avail < 8 => items[i] = ItemNone

\* a pull found the length prefix cut short after another had returned a
\* message
C7_Witness ==
    \E i \in Pulled :
        /\ i > 1 /\ items[i - 1].kind = "ok"
        /\ pulls[i].avail \in 1 .. 7
        /\ items[i] = ItemNone

\* C8: once the length prefix is read, fewer than `prefix` bytes left make
\* the pull return the read error, and a payload of exactly `prefix` bytes
\* that does not deserialize makes it return the MsgPack error; the pull
\* returns neither None nor a message.
C8_PayloadErrors ==
    \A i \in Pulled :
        pulls[i].avail >= 8 =>
            LET p == pulls[i].prefix
                left == pulls[i].avail - 8
                short == p.hi > 0 \/ p.lo > left
            IN /\ short => items[i].kind = "err" /\ items[i].err = ReadErr(target)
               /\ (~short /\ ~Deserialize(BodySlice(pulls[i].start + 8,
                                                    pulls[i].start + 8 + p.lo)).ok)
                     => items[i].kind = "err" /\ items[i].err = "MsgPack"

\* C9 as stated: after a pull returned Some(Err), no later pull returns
\* Some(Ok).
C9_FailedIsTerminal ==
    \A i, j \in Pulled :
        (i < j /\ items[i].kind = "err") => items[j].kind # "ok"

\* C9, amended: after a pull returned Some(Err) for a failed payload read,
\* over an input that stays at its end, every later pull returns None; a
\* deserialization Err does not stop the decoder: the next pull reads the
\* frame that follows the one that failed to deserialize.
C9_ReadFailureIsTerminal ==
    \A i, j \in Pulled :
        i < j =>
            /\ pulls[i].fail = "payload" => items[j] = ItemNone
            /\ (pulls[i].fail = "deser" /\ j = i + 1) =>
                  pulls[j].start = pulls[i].start + 8 + pulls[i].len.lo

\* a payload read failed although the body went on, and a later pull
\* returned None
C9_Witness ==
    \E i, j \in Pulled :
        /\ i < j
        /\ pulls[i].fail = "payload"
        /\ pulls[i].avail > 8 + pulls[i].prefix.lo
        /\ items[j] = ItemNone

\* C10: a pull that returns Some(Ok) or a deserialization Err consumes
\* exactly 8 + len bytes, len being the little-endian value of the first 8
\* of them; the pull starts where the previous one stopped and its item is
\* decoded from the len bytes of that frame.
C10_Framing ==
    \A i \in Pulled :
        (items[i].kind = "ok" \/ pulls[i].fail = "deser") =>
            LET p == FromLeBytes(BodySlice(pulls[i].start, pulls[i].start + 8))
                m == Deserialize(BodySlice(pulls[i].start + 8, pulls[i].stop))
            IN /\ p.hi = 0
               /\ pulls[i].stop - pulls[i].start = 8 + p.lo
               /\ pulls[i].start = IF i = 1 THEN 0 ELSE pulls[i - 1].stop
               /\ items[i].kind = (IF m.ok THEN "ok" ELSE "err")
               /\ items[i].msg = m.msg
               /\ items[i].err = (IF m.ok THEN "" ELSE "MsgPack")

----------------------------------------------------------------------------
(* Laziness and the two backends *)

\* C11: Decoder::new consumes the 8 header bytes and nothing of the body;
\* a call to next() consumes at most the frame at the decoder's position
\* (8 bytes and the payload its prefix announces), so that after n pulls at
\* most n frames are consumed; the buffer holds the payload of the last
\* frame read and nothing else.
C11_LazyPull ==
    /\ (Opened /\ newResult.res = "Ok") => newResult.rawPos = 8
    /\ (Opened /\ items = << >>) => dec = [zpos |-> 0, buffer |-> << >>, bufferLen |-> NoLen]
    /\ \A i \in Pulled :
          /\ pulls[i].start = (IF i = 1 THEN 0 ELSE pulls[i - 1].stop)
          /\ pulls[i].fail = "len" => pulls[i].stop - pulls[i].start < 8
          /\ (pulls[i].fail # "len" /\ pulls[i].prefix.hi = 0) =>
                pulls[i].stop - pulls[i].start <= 8 + pulls[i].prefix.lo
    /\ items # << >> =>
          /\ dec.zpos = pulls[Len(pulls)].stop
          /\ dec.bufferLen.hi = 0 => Len(dec.buffer) = dec.bufferLen.lo
          /\ \A i \in Pulled :
                (pulls[i].fail \in {"none", "deser"}
                 /\ \A j \in Pulled : j > i => pulls[j].fail = "len") =>
                    dec.buffer = BodySlice(pulls[i].start + 8, pulls[i].stop)

\* a short frame was pulled after a longer one
C11_Witness ==
    \E i \in Pulled :
        /\ i > 1
        /\ pulls[i - 1].fail = "none" /\ pulls[i].fail = "deser"
        /\ pulls[i].len.lo < pulls[i - 1].len.lo
        /\ Len(dec.buffer) = pulls[i].len.lo

\* the name of a payload read error, which is all the two builds may differ in
Normalized(item) ==
    IF item.kind = "err" /\ item.err \in {"Zstd", "RuzstdRead"}
    THEN [item EXCEPT !.err = "read"]
    ELSE item

\* C12: on the same header and the same decompressed body the native and
\* the wasm decoder go through the same outcomes: the same result of
\* Decoder::new and, pull by pull, the same item, up to the name of the
\* error variant of a failed read.
C12_BackendEquivalence ==
    Opened =>
        /\ (crossResult.res = "Ok") = (newResult.res = "Ok")
        /\ (crossResult.res \in {"Zstd", "RuzstdInit"})
              = (newResult.res \in {"Zstd", "RuzstdInit"})
        /\ Len(crossItems) = Len(items)
        /\ \A i \in Pulled : Normalized(crossItems[i]) = Normalized(items[i])

----------------------------------------------------------------------------
(* The state machine of a cell *)

\* the sequences of at most n elements of S
UpTo(S, n) == UNION {[1 .. k -> S] : k \in 0 .. n}

\* inputs of the native builders
NativeSeqs(C) == UpTo({Native(C, v) : v \in SlotValues(C.datatype)}, MaxCellLen)
OptionSeqs(C) ==
    UpTo({SomeNative(C, v) : v \in SlotValues(C.datatype)} \cup {NoneNative(C)},
         MaxCellLen)

\* raw arrays without a bitmap, of every datatype that has a value buffer
DenseArrays ==
    UNION {{Array(dt, SmallLen(Len(vs)), vs, NoValidity) :
                vs \in UpTo(SlotValues(dt), MaxCellLen)} :
           dt \in DataTypes \ {"Null"}}

\* raw arrays with a bitmap, set or unset at any slot
BitmapTypes == {"UInt64"}
BitmapArrays ==
    UNION {UNION {{Array(dt, SmallLen(Len(vs)), vs, SomeValidity(bits)) :
                        bits \in [1 .. Len(vs) -> BOOLEAN]} :
                  vs \in UpTo(SlotValues(dt), MaxCellLen)} :
           dt \in BitmapTypes}

\* NullArray::new(DataType::Null, len), of the lengths n, 2^31 + n and
\* 2^32 + n that a 64-bit usize holds
NullArrays ==
    {Array("Null", SmallLen(n), << >>, NoValidity) : n \in 0 .. MaxCellLen}
    \cup {Array("Null", [hi |-> h, lo |-> l], << >>, NoValidity) :
            h \in {1, 2}, l \in {0, 1}}

\* zeroed UInt8 arrays of 2^31 and of 2^32 elements
LongArrays ==
    {Array("UInt8", [hi |-> h, lo |-> 0], << >>, NoValidity) : h \in {1, 2}}

RawArrays == DenseArrays \cup BitmapArrays \cup NullArrays \cup LongArrays

\* the names raw arrays are given
RawNames == {"rerun.instance_key", "rerun.label"}

\* another datatype with the same values
Sibling(dt) ==
    IF dt = "Float32" THEN "Float64"
    ELSE IF dt = "Float64" THEN "Float32"
    ELSE IF dt = "UInt64" THEN "Int64"
    ELSE "UInt64"

\* the arrays a cell is compared with: its own array, and that array with
\* another length, another datatype, another bitmap or another value
Neighbours(a) ==
    {a, [a EXCEPT !.len = SmallLen(0), !.values = << >>,
                  !.validity = [some |-> a.validity.some, bits |-> << >>]]}
    \cup (IF a.datatype = "Null" THEN {}
          ELSE {[a EXCEPT !.datatype = Sibling(a.datatype)]})
    \cup (IF a.datatype = "Null" \/ a.len.hi > 0 THEN {}
          ELSE {[a EXCEPT !.validity = SomeValidity([i \in 1 .. Len(a.values) |-> TRUE])],
                [a EXCEPT !.validity = SomeValidity([i \in 1 .. Len(a.values) |-> i # 1])],
                [a EXCEPT !.values = [i \in 1 .. Len(a.values) |->
                                        IF i = 1 THEN 1 - (a.values[i] % 2)
                                        ELSE a.values[i]]]})

Built == origin.ctor # ""
Alive == Built /\ ~ret.panicked

\* nothing of the decoder moves while a cell is used
DecoderIdle ==
    /\ input = [header |-> Magic \o <<0, 0, 0, 0>>, zinit |-> TRUE,
                body |-> [bytes |-> << >>, end |-> "eof"]]
    /\ state = "unopened"
    /\ newResult = NoResult
    /\ dec = NewDecoder
    /\ items = << >>
    /\ pulls = << >>
    /\ twinVersion = <<0, 0, 0, 0>>
    /\ twinResult = NoResult
    /\ twinDec = NewDecoder
    /\ twinItems = << >>
    /\ crossResult = NoResult
    /\ crossDec = NewDecoder
    /\ crossItems = << >>

\* a cell of a build with a 64-bit usize
CellInit ==
    /\ target = "native"
    /\ debugAssertions \in BOOLEAN
    /\ DecoderIdle
    /\ RenderIdle
    /\ cell = NoCell
    /\ origin = NoOrigin
    /\ ret = NoRet

\* what a constructor leaves alone
ConstructFrame == UNCHANGED <<decoderVars, debugAssertions, renderVars>>

\* DataCell::from_native::<C>(values)
DoFromNative ==
    /\ ~Built
    /\ \E C \in Components : \E natives \in NativeSeqs(C) :
          /\ cell' = FromNative(C, natives)
          /\ origin' = [Origin("from_native", C, SmallLen(Len(natives)), 0, natives)
                            EXCEPT !.built = cell']
    /\ ret' = Ret("from_native", 0)
    /\ ConstructFrame

\* DataCell::from_native_sparse::<C>(values)
DoFromNativeSparse ==
    /\ ~Built
    /\ \E C \in Components : \E options \in OptionSeqs(C) :
          /\ cell' = FromNativeSparse(C, options)
          /\ origin' = [Origin("from_native_sparse", C, SmallLen(Len(options)),
                               Cardinality({i \in 1 .. Len(options) : ~options[i].some}),
                               options)
                            EXCEPT !.built = cell']
    /\ ret' = Ret("from_native_sparse", 0)
    /\ ConstructFrame

\* DataCell::from_arrow(name, values)
DoFromArrow ==
    /\ ~Built
    /\ \E name \in RawNames : \E array \in RawArrays :
          /\ cell' = FromArrow(name, array)
          /\ origin' = [Origin("from_arrow", NoComponent, ArrayLen(array), 0, << >>)
                            EXCEPT !.built = cell']
    /\ ret' = Ret("from_arrow", 0)
    /\ ConstructFrame

\* DataCell::from_arrow_empty(name, datatype)
DoFromArrowEmpty ==
    /\ ~Built
    /\ \E name \in RawNames : \E dt \in DataTypes :
          /\ cell' = FromArrowEmpty(name, dt)
          /\ origin' = [Origin("from_arrow_empty", NoComponent, SmallLen(0), 0, << >>)
                            EXCEPT !.built = cell']
    /\ ret' = Ret("from_arrow_empty", 0)
    /\ ConstructFrame

\* DataCell::from_native_empty::<C>()
DoFromNativeEmpty ==
    /\ ~Built
    /\ \E C \in Components :
          /\ cell' = FromNativeEmpty(C)
          /\ origin' = [Origin("from_native_empty", C, SmallLen(0), 0, << >>)
                            EXCEPT !.built = cell']
    /\ ret' = Ret("from_native_empty", 0)
    /\ ConstructFrame

\* what an operation on &self leaves alone
SelfFrame == UNCHANGED <<decoderVars, debugAssertions, cell, origin, renderVars>>

\* cell.component_name()
DoComponentName ==
    /\ Alive
    /\ ret' = Ret("component_name", ComponentNameOf(cell))
    /\ SelfFrame

\* cell.datatype()
DoDatatype ==
    /\ Alive
    /\ ret' = Ret("datatype", Datatype(cell))
    /\ SelfFrame

\* cell.num_instances()
DoNumInstances ==
    /\ Alive
    /\ ret' = Ret("num_instances", NumInstances(cell))
    /\ SelfFrame

\* cell.is_empty()
DoIsEmpty ==
    /\ Alive
    /\ ret' = Ret("is_empty", IsEmpty(cell))
    /\ SelfFrame

\* cell.is_dense()
DoIsDense ==
    /\ Alive
    /\ ret' = Ret("is_dense", IsDense(cell))
    /\ SelfFrame

\* cell.is_sorted_and_unique()
DoIsSortedAndUnique ==
    /\ Alive
    /\ LET r == IsSortedAndUnique(cell, debugAssertions)
       IN ret' = IF r.kind = "panic" THEN Panicked("is_sorted_and_unique")
                 ELSE Ret("is_sorted_and_unique", r)
    /\ SelfFrame

\* cell.as_arrow()
DoAsArrow ==
    /\ Alive
    /\ ret' = Ret("as_arrow", AsArrow(cell))
    /\ SelfFrame

\* cell.as_arrow_ref()
DoAsArrowRef ==
    /\ Alive
    /\ ret' = Ret("as_arrow_ref", AsArrowRef(cell))
    /\ SelfFrame

\* cell.as_arrow_monolist()
DoAsArrowMonolist ==
    /\ Alive
    /\ LET r == AsArrowMonolist(cell)
       IN ret' = IF r.kind = "panic" THEN Panicked("as_arrow_monolist")
                 ELSE Ret("as_arrow_monolist", r.val)
    /\ SelfFrame

\* Display: formats the name and the monolist of the cell
DoDisplay ==
    /\ Alive
    /\ LET r == AsArrowMonolist(cell)
       IN ret' = IF r.kind = "panic" THEN Panicked("fmt")
                 ELSE Ret("fmt", <<ComponentNameOf(cell), r.val>>)
    /\ SelfFrame

\* cell.try_as_native::<C>()
DoTryAsNative ==
    /\ Alive
    /\ \E C \in Components :
          ret' = [op |-> "try_as_native", comp |-> C, res |-> TryAsNative(cell, C),
                  panicked |-> FALSE]
    /\ SelfFrame

\* cell.as_native::<C>(): the unwrap of try_as_native
DoAsNative ==
    /\ Alive
    /\ \E C \in Components :
          LET r == TryAsNative(cell, C)
          IN ret' = IF r.kind = "err" THEN Panicked("as_native")
                    ELSE [op |-> "as_native", comp |-> C, res |-> r,
                          panicked |-> FALSE]
    /\ SelfFrame

\* next() of the iterator the last call returned or advanced
DoIterNext ==
    /\ Alive
    /\ ret.op \in {"try_as_native", "as_native", "next"}
    /\ ret.res.kind = "ok"
    /\ LET r == IterNext(cell, ret.res.val)
       IN ret' = IF r.panic THEN Panicked("next")
                 ELSE [op |-> "next", res |-> Ok(r.it), item |-> r.item,
                       panicked |-> FALSE]
    /\ SelfFrame

\* cell.clone()
DoClone ==
    /\ Alive
    /\ ret' = Ret("clone", Clone(cell))
    /\ SelfFrame

\* cell == clone, on the clone the last call returned
DoEqClone ==
    /\ Alive
    /\ ret.op = "clone"
    /\ ret' = [op |-> "eq_clone", rhs |-> ret.res, res |-> CellEq(cell, ret.res),
               panicked |-> FALSE]
    /\ SelfFrame

\* cell == other, for another cell built from an arrow array
DoEq ==
    /\ Alive
    /\ \E name \in RawNames : \E array \in Neighbours(cell.values) :
          ret' = [op |-> "eq", rhs |-> FromArrow(name, array),
                  res |-> CellEq(cell, FromArrow(name, array)), panicked |-> FALSE]
    /\ SelfFrame

CellNext ==
    \/ DoFromNative \/ DoFromNativeSparse \/ DoFromArrow
    \/ DoFromArrowEmpty \/ DoFromNativeEmpty
    \/ DoComponentName \/ DoDatatype \/ DoNumInstances \/ DoIsEmpty \/ DoIsDense
    \/ DoIsSortedAndUnique \/ DoAsArrow \/ DoAsArrowRef \/ DoAsArrowMonolist
    \/ DoDisplay \/ DoTryAsNative \/ DoAsNative \/ DoIterNext
    \/ DoClone \/ DoEqClone \/ DoEq

SpecCell == CellInit /\ [][CellNext]_vars

----------------------------------------------------------------------------
(* Shape, sortedness and density of a cell *)

\* C13: a cell built from an input of length N reports num_instances() = N
\* and is_empty() = (N = 0), and is_empty() holds exactly when
\* num_instances() is 0, for every length N.
C13_CellShape ==
    Built =>
        /\ ret.op = "num_instances" => ret.res = origin.n
        /\ ret.op = "is_empty" => ret.res = (origin.n = SmallLen(0))
        /\ IsEmpty(cell) = (NumInstances(cell) = SmallLen(0))

NumericLt(a, b) == a # NaN /\ b # NaN /\ a < b

\* C14: on a dense cell of one of the ten numeric types
\* is_sorted_and_unique() returns Ok(true) exactly when every adjacent pair
\* of the value buffer is strictly increasing: Ok(true) for an empty and for
\* a single-element cell, Ok(false) as soon as a pair is equal or decreasing.
C14_Sortedness ==
    (/\ Built
     /\ ret.op = "is_sorted_and_unique"
     /\ cell.values.datatype \in Numeric
     /\ (cell.values.validity.some => \A i \in 1 .. Len(cell.values.validity.bits) :
                                         cell.values.validity.bits[i]))
    => /\ ~ret.panicked
       /\ ret.res.kind = "ok"
       /\ LET v == cell.values.values
              long == cell.values.len.hi > 0
          IN /\ ret.res.val =
                   (~long /\ \A i \in 1 .. Len(v) - 1 : NumericLt(v[i], v[i + 1]))
             /\ (~long /\ Len(v) <= 1) => ret.res.val
             /\ (\E i \in 1 .. Len(v) - 1 : v[i] = v[i + 1] \/ v[i] > v[i + 1])
                   => ~ret.res.val

\* a sorted cell and its bitmap with every bit set
C14_Witness ==
    /\ ret.op = "is_sorted_and_unique"
    /\ cell.values.datatype = "UInt64"
    /\ cell.values.validity = SomeValidity(<<TRUE, TRUE>>)
    /\ cell.values.values = <<0, 1>>
    /\ ret.res.kind = "ok" /\ ret.res.val

\* is_sorted_and_unique() on a cell of another type than the ten returned the
\* UnsupportedDatatype error that carries the cell's datatype
ReturnedUnsupported ==
    /\ ~ret.panicked
    /\ ret.res.kind = "err"
    /\ ret.res.err = "UnsupportedDatatype"
    /\ ret.res.datatype = cell.values.datatype

\* C15 as stated: on a cell whose type is none of the ten numeric types
\* is_sorted_and_unique() returns the UnsupportedDatatype error with the
\* cell's datatype, whatever the length, and leaves the cell unchanged.
C15_UnsupportedAnyCell ==
    (Built /\ ret.op = "is_sorted_and_unique" /\ cell.values.datatype \notin Numeric)
    => ReturnedUnsupported /\ cell = origin.built

\* C15: on a cell whose type is none of the ten numeric types
\* is_sorted_and_unique() returns the UnsupportedDatatype error with the
\* cell's datatype, whatever the length, unless the cell has a null slot and
\* the build keeps debug assertions: then the call panics. The cell is
\* unchanged by the call.
C15_UnsupportedDense ==
    (Built /\ ret.op = "is_sorted_and_unique" /\ cell.values.datatype \notin Numeric)
    => /\ cell = origin.built
       /\ IF /\ debugAssertions
             /\ cell.values.validity.some
             /\ \E i \in 1 .. Len(cell.values.validity.bits) :
                   ~cell.values.validity.bits[i]
          THEN ret.panicked
          ELSE ReturnedUnsupported

\* the error for an empty cell of strings
C15_Witness ==
    /\ ret.op = "is_sorted_and_unique"
    /\ origin.ctor = "from_native_empty"
    /\ cell.values.datatype = "Utf8"
    /\ cell.values.len = SmallLen(0)
    /\ ReturnedUnsupported

\* C16: is_dense() is true exactly when the array has no null entry; a cell
\* of a sparse build is not dense exactly when an input element was absent,
\* and a cell of a dense build and an empty cell are dense.
C16_Density ==
    (Built /\ ret.op = "is_dense") =>
        /\ ret.res = (NullCount(cell.values) = SmallLen(0))
        /\ origin.ctor = "from_native_sparse" => (ret.res = (origin.absent = 0))
        /\ origin.ctor \in {"from_native", "from_native_empty", "from_arrow_empty"}
              => ret.res
        /\ ArrayIsEmpty(cell.values) => ret.res

----------------------------------------------------------------------------
(* Native values, the monolist, equality and immutability of a cell *)

\* the iterator a call returned or advanced
Iterating ==
    /\ Built
    /\ ret.op \in {"try_as_native", "as_native", "next"}
    /\ ~ret.panicked
    /\ ret.res.kind = "ok"

C18_Monolist ==
    (Built /\ ret.op = "as_arrow_monolist") =>
        /\ ~ret.panicked
        /\ ret.res.offsets = <<SmallLen(0), origin.n>>
        /\ ret.res.values = cell.values
        /\ ~ret.res.validity.some

\* the slots of two arrays are null at the same places
SameNullPattern(x, y) ==
    \A i \in 1 .. Len(x.values) : IsNullSlot(x, i) = IsNullSlot(y, i)

\* two arrays of one datatype, one length and one null pattern hold, at the
\* slots that are not null, the same values
SameValues(x, y) ==
    \A i \in 1 .. Len(x.values) : ~IsNullSlot(x, i) => x.values[i] = y.values[i]

\* the same values under the equality of the element type, for which a NaN
\* is not equal to a NaN
EqualValues(x, y) ==
    \A i \in 1 .. Len(x.values) :
        ~IsNullSlot(x, i) =>
            /\ x.values[i] = y.values[i]
            /\ ~(x.datatype \in Floats /\ x.values[i] = NaN)

\* C19 as stated: two cells compare equal exactly when their names are equal
\* and their arrays have the same datatype, the same values and the same
\* null pattern.
C19_EqualityOfContents ==
    (Built /\ ret.op = "eq") =>
        ret.res = (/\ cell.name = ret.rhs.name
                   /\ cell.values.datatype = ret.rhs.values.datatype
                   /\ cell.values.len = ret.rhs.values.len
                   /\ SameNullPattern(cell.values, ret.rhs.values)
                   /\ SameValues(cell.values, ret.rhs.values))

\* C19: two cells compare equal exactly when their names are equal and their
\* arrays have the same datatype, the same null pattern and, under the
\* equality of the element type, the same values: a float NaN equals no
\* value. Cells with equal arrays and different names are unequal.
C19_Equality ==
    (Built /\ ret.op = "eq") =>
        /\ ret.res = (/\ cell.name = ret.rhs.name
                      /\ cell.values.datatype = ret.rhs.values.datatype
                      /\ cell.values.len = ret.rhs.values.len
                      /\ SameNullPattern(cell.values, ret.rhs.values)
                      /\ EqualValues(cell.values, ret.rhs.values))
        /\ cell.name # ret.rhs.name => ~ret.res

\* a cell was compared with one of the same array and another name
C19_Witness ==
    /\ Built
    /\ ret.op = "eq"
    /\ ret.rhs.values = cell.values
    /\ Len(cell.values.values) = MaxCellLen
    /\ ret.rhs.name # cell.name
    /\ ~ret.res

\* a slot that is not null holds a NaN
HoldsNaN(a) ==
    /\ a.datatype \in Floats
    /\ \E i \in 1 .. Len(a.values) : ~IsNullSlot(a, i) /\ a.values[i] = NaN

\* what clone() returned has the name, the datatype, the length and the
\* array of the cell
CloneAlike ==
    (Built /\ ret.op = "clone") =>
        /\ ret.res.name = cell.name
        /\ ret.res.values = cell.values
        /\ Datatype(ret.res) = Datatype(cell)
        /\ NumInstances(ret.res) = NumInstances(cell)

\* C20 as stated: no operation changes the cell after its construction, and
\* a clone always compares equal to its original.
C20_CloneAlwaysEqual ==
    /\ Built => cell = origin.built
    /\ CloneAlike
    /\ (Built /\ ret.op = "eq_clone") => ret.res

\* C20: no operation changes the name, the datatype, the length, the values
\* or the null pattern of the cell after its construction; a clone has the
\* cell's name and array, reports the same datatype() and num_instances(),
\* and compares equal to its original unless the cell holds a float NaN.
C20_Immutable ==
    /\ Built => cell = origin.built
    /\ CloneAlike
    /\ (Built /\ ret.op = "eq_clone") =>
          /\ ret.rhs.name = cell.name /\ ret.rhs.values = cell.values
          /\ ret.res = ~HoldsNaN(cell.values)

\* a cell with an absent element compared equal to its clone
C20_Witness ==
    /\ Built
    /\ ret.op = "eq_clone"
    /\ origin.ctor = "from_native_sparse"
    /\ origin.absent = 1
    /\ Len(cell.values.values) = 2
    /\ ret.res

----------------------------------------------------------------------------
(* The state machine of a RenderContext *)

\* a context right after RenderContext::new, on either target
RenderInit ==
    /\ target \in {"native", "wasm"}
    /\ DecoderIdle
    /\ CellIdle
    /\ RenderIdle

\* what an operation found when it was called
Found(op, res) ==
    [RenderRet(op, res) EXCEPT
        !.index = active_frame.frame_index,
        !.encoder = active_frame.before_view_builder_encoder,
        !.subs = inflight_queue_submissions,
        !.submitCalled = called.before_submit,
        !.data = active_frame.per_frame_data_helper]

RenderFrame == UNCHANGED <<decoderVars, cellVars>>

\* context.begin_frame(): the assertion on a pending encoder, before_submit
\* for it, the new ActiveFrameContext (which drops the old one), poll_device
DoBeginFrame ==
    /\ life = "alive"
    /\ active_frame.frame_index < MaxFrameIndex
    /\ LET enc == active_frame.before_view_builder_encoder
           pending == enc # NoEncoder
       IN IF pending /\ ~AssertFirstFrame(active_frame.frame_index)
          THEN /\ life' = "panicked"
               /\ rret' = [Found("begin_frame", 0) EXCEPT !.panicked = TRUE]
               /\ UNCHANGED <<active_frame, inflight_queue_submissions, finishes,
                              submissions, called>>
          ELSE LET bs == IF pending
                         THEN BeforeSubmit(enc, inflight_queue_submissions,
                                           finishes, submissions)
                         ELSE [encoder |-> enc, subs |-> inflight_queue_submissions,
                               counts |-> finishes, submitted |-> submissions]
                   polled == PollDevice(target, bs.subs)
               IN /\ active_frame' = ActiveFrameContext(Len(finishes) + 1,
                                                        active_frame.frame_index + 1)
                  /\ finishes' = Append(DropEncoder(bs.counts, bs.encoder), 0)
                  /\ submissions' = bs.submitted
                  /\ inflight_queue_submissions' = polled.subs
                  /\ called' = [before_submit |-> FALSE, begun |-> called.begun + 1]
                  /\ rret' = [Found("begin_frame", 0) EXCEPT
                                 !.polled = bs.subs, !.waited = polled.waited]
                  /\ life' = life
    /\ UNCHANGED <<renderers, creations>>
    /\ RenderFrame

\* context.before_submit()
DoBeforeSubmit ==
    /\ life = "alive"
    /\ LET bs == BeforeSubmit(active_frame.before_view_builder_encoder,
                              inflight_queue_submissions, finishes, submissions)
       IN /\ active_frame' = [active_frame EXCEPT
                                 !.before_view_builder_encoder = bs.encoder]
          /\ inflight_queue_submissions' = bs.subs
          /\ finishes' = bs.counts
          /\ submissions' = bs.submitted
    /\ called' = [called EXCEPT !.before_submit = TRUE]
    /\ rret' = Found("before_submit", 0)
    /\ UNCHANGED <<renderers, creations, life>>
    /\ RenderFrame

\* context.active_frame.before_view_builder_encoder.lock().get()
DoEncoderGet ==
    /\ life = "alive"
    /\ LET g == EncoderGet(active_frame.before_view_builder_encoder)
       IN /\ rret' = [Found("get_encoder", g.encoder) EXCEPT !.panicked = g.panic]
          /\ life' = IF g.panic THEN "panicked" ELSE life
    /\ UNCHANGED <<active_frame, inflight_queue_submissions, renderers, finishes,
                   creations, submissions, called>>
    /\ RenderFrame

\* user code puts an entry into context.active_frame.per_frame_data_helper
DoInsertPerFrameData ==
    /\ life = "alive"
    /\ \E d \in PerFrameData \ active_frame.per_frame_data_helper :
          active_frame' = [active_frame EXCEPT !.per_frame_data_helper = @ \cup {d}]
    /\ rret' = Found("insert_per_frame_data", 0)
    /\ UNCHANGED <<inflight_queue_submissions, renderers, finishes, creations,
                   submissions, called, life>>
    /\ RenderFrame

\* renderers.get_or_create::<R>()
DoGetOrCreate ==
    /\ life = "alive"
    /\ \E R \in RendererTypes :
          /\ creations[R] < 3
          /\ LET r == OrInsertWith(renderers, R, creations[R])
             IN /\ renderers' = r.map
                /\ creations' = IF r.ran THEN [creations EXCEPT ![R] = @ + 1]
                                ELSE creations
                /\ rret' = [Found("get_or_create", r.map[R]) EXCEPT !.renderer = R]
    /\ UNCHANGED <<active_frame, inflight_queue_submissions, finishes, submissions,
                   called, life>>
    /\ RenderFrame

\* renderers.get::<R>()
DoGetRenderer ==
    /\ life = "alive"
    /\ \E R \in RendererTypes :
          rret' = [Found("get", RenderersGet(renderers, R)) EXCEPT !.renderer = R]
    /\ UNCHANGED <<active_frame, inflight_queue_submissions, renderers, finishes,
                   creations, submissions, called, life>>
    /\ RenderFrame

\* the context is dropped, at the end or while a panic unwinds: the drop of
\* its FrameGlobalCommandEncoder
DoDrop ==
    /\ life \in {"alive", "panicked"}
    /\ finishes' = DropEncoder(finishes, active_frame.before_view_builder_encoder)
    /\ active_frame' = [active_frame EXCEPT !.before_view_builder_encoder = NoEncoder]
    /\ life' = "dropped"
    /\ rret' = [Found("drop", 0) EXCEPT !.panicked = rret.panicked]
    /\ UNCHANGED <<inflight_queue_submissions, renderers, creations, submissions,
                   called>>
    /\ RenderFrame

RenderNext ==
    \/ DoBeginFrame \/ DoBeforeSubmit \/ DoEncoderGet \/ DoInsertPerFrameData
    \/ DoGetOrCreate \/ DoGetRenderer \/ DoDrop

SpecRender == RenderInit /\ [][RenderNext]_vars

----------------------------------------------------------------------------
(* Claims about the RenderContext *)

\* C21: in any sequence of begin_frame and before_submit calls the number of
\* tracked in-flight queue submissions never exceeds
\* MAX_NUM_INFLIGHT_QUEUE_SUBMISSIONS (4).
C21_InflightBounded ==
    Len(inflight_queue_submissions) <= MAX_NUM_INFLIGHT_QUEUE_SUBMISSIONS

BeganFrame == rret.op = "begin_frame" /\ ~rret.panicked

\* C22: poll_device, as begin_frame runs it, on a native target removes
\* exactly max(0, len - 4) submissions from the front of the list it finds,
\* waits on the newest removed one when one was removed, and leaves the most
\* recent min(len, 4) in their order; on wasm it removes nothing.
C22_PollDevice ==
    BeganFrame =>
        LET len == Len(rret.polled)
            n == IF target = "native" /\ len > 4 THEN len - 4 ELSE 0
        IN /\ Len(inflight_queue_submissions) = len - n
           /\ \A i \in 1..(len - n) :
                 inflight_queue_submissions[i] = rret.polled[n + i]
           /\ rret.waited = (IF n > 0 THEN rret.polled[n] ELSE NoSubmission)
           /\ target = "native" =>
                 Len(inflight_queue_submissions) = (IF len < 4 THEN len ELSE 4)
           /\ target = "wasm" => inflight_queue_submissions = rret.polled

C22_Witness ==
    /\ BeganFrame
    /\ target = "native"
    /\ Len(rret.polled) = 5
    /\ rret.waited = rret.polled[1]
    /\ Len(inflight_queue_submissions) = 4

\* C23: the frame index is 0 after RenderContext::new, every completed
\* begin_frame increases it by exactly 1 and no other operation changes it;
\* a completed begin_frame leaves an empty per-frame data map and a fresh,
\* unfinished frame-global command encoder.
C23_FrameIndex ==
    /\ active_frame.frame_index = called.begun
    /\ rret.op = "new" => active_frame.frame_index = 0
    /\ BeganFrame =>
          /\ active_frame.frame_index = rret.index + 1
          /\ active_frame.per_frame_data_helper = {}
          /\ active_frame.before_view_builder_encoder # NoEncoder
          /\ active_frame.before_view_builder_encoder # rret.encoder
          /\ active_frame.before_view_builder_encoder = Len(finishes)
          /\ finishes[active_frame.before_view_builder_encoder] = 0
    /\ ~(rret.op \in {"new", "begin_frame"}) =>
          active_frame.frame_index = rret.index

C23_Witness ==
    /\ BeganFrame
    /\ rret.index >= 2
    /\ rret.data # {}
    /\ active_frame.per_frame_data_helper = {}

\* C24: begin_frame completes over a still-pending encoder only at frame
\* index 0, where it submits it itself; begin_frame at an index above 0 with
\* no before_submit since the previous begin_frame panics; begin_frame after a
\* before_submit, and the first begin_frame, never panic.
C24_FrameProtocol ==
    rret.op = "begin_frame" =>
        /\ (~rret.panicked /\ rret.encoder # NoEncoder) =>
              /\ rret.index = 0
              /\ Len(rret.polled) = Len(rret.subs) + 1
              /\ finishes[rret.encoder] = 1
        /\ (rret.index > 0 /\ ~rret.submitCalled) => rret.panicked
        /\ (rret.index = 0 \/ rret.submitCalled) => ~rret.panicked

C24_Witness ==
    /\ rret.op = "begin_frame"
    /\ rret.panicked
    /\ rret.index >= 2
    /\ ~rret.submitCalled

\* C25: FrameGlobalCommandEncoder::get returns the encoder from
\* RenderContext::new or a begin_frame until the next before_submit, and
\* panics after a before_submit until the next begin_frame.
C25_EncoderAvailability ==
    /\ rret.op = "get_encoder" =>
          /\ rret.panicked <=> rret.submitCalled
          /\ ~rret.panicked => rret.res # NoEncoder /\ rret.res = rret.encoder
    /\ life = "alive" =>
          (active_frame.before_view_builder_encoder = NoEncoder
              <=> called.before_submit)

C25_Witness ==
    /\ rret.op = "get_encoder"
    /\ rret.panicked
    /\ rret.submitCalled
    /\ rret.index >= 1

\* C26: the first before_submit of a frame finishes the frame's encoder and
\* appends exactly one submission, every further before_submit of that frame
\* appends none; no encoder is finished twice, every replaced encoder has
\* been finished once, and after the context is dropped every encoder ever
\* created has been finished exactly once.
C26_SubmitOncePerFrame ==
    /\ rret.op = "before_submit" =>
          IF rret.submitCalled
          THEN inflight_queue_submissions = rret.subs
          ELSE /\ Len(inflight_queue_submissions) = Len(rret.subs) + 1
               /\ \A i \in 1..Len(rret.subs) :
                     inflight_queue_submissions[i] = rret.subs[i]
               /\ inflight_queue_submissions[Len(rret.subs) + 1] = submissions
               /\ \A i \in 1..Len(rret.subs) : rret.subs[i] < submissions
               /\ finishes[rret.encoder] = 1
    /\ \A e \in DOMAIN finishes :
          /\ finishes[e] <= 1
          /\ e # active_frame.before_view_builder_encoder => finishes[e] = 1

C26_Witness ==
    /\ rret.op = "before_submit"
    /\ rret.submitCalled
    /\ rret.index >= 1
    /\ Len(finishes) >= 2

\* C27: create_renderer runs at most once per renderer type, a type has no
\* stored renderer exactly until its first get_or_create, get and
\* get_or_create return that one stored renderer ever after.
C27_LazyRenderers ==
    /\ \A R \in RendererTypes :
          /\ creations[R] <= 1
          /\ renderers[R] = NoRenderer <=> creations[R] = 0
          /\ renderers[R] # NoRenderer => renderers[R] = 1
    /\ rret.op = "get" =>
          rret.res = (IF creations[rret.renderer] = 0 THEN NoRenderer ELSE 1)
    /\ rret.op = "get_or_create" =>
          /\ rret.res = 1
          /\ creations[rret.renderer] = 1

C27_Witness ==
    /\ rret.op = "get"
    /\ rret.renderer = "LineRenderer"
    /\ rret.res # NoRenderer
    /\ renderers["RectangleRenderer"] = NoRenderer

----------------------------------------------------------------------------
(* The end of the stream, the reused buffer, the width of the length *)

\* C28: over an input that stays at its end, once a pull has returned None
\* every later pull returns None: no item follows the end of the stream.
C28_ExhaustedIsAbsorbing ==
    \A i, j \in Pulled :
        (i < j /\ items[i].kind = "none") =>
            /\ items[j] = ItemNone
            /\ pulls[j].start = pulls[i].stop
            /\ pulls[j].stop = pulls[j].start

\* two pulls returned None after one that returned a message
C28_Witness ==
    \E i \in Pulled :
        /\ i > 1 /\ i + 1 \in Pulled
        /\ items[i - 1].kind = "ok"
        /\ items[i].kind = "none"
        /\ items[i + 1].kind = "none"

\* a pull that read its whole payload
ReadPayload(i) == pulls[i].fail \in {"none", "deser"}

\* the payload bytes the pull read from the body
PayloadOf(i) == BodySlice(pulls[i].start + 8, pulls[i].stop)

\* C29: the item of a pull that read its payload is the deserialization of
\* the len bytes that pull read and of nothing else: two pulls that read the
\* same payload bytes return the same item whatever was pulled before them,
\* and the buffer holds exactly the bytes of the last payload read.
C29_NoBufferLeak ==
    \A i \in Pulled :
        ReadPayload(i) =>
            LET m == Deserialize(PayloadOf(i))
            IN /\ pulls[i].len.hi = 0
               /\ Len(PayloadOf(i)) = pulls[i].len.lo
               /\ items[i].kind = (IF m.ok THEN "ok" ELSE "err")
               /\ items[i].msg = m.msg
               /\ \A j \in Pulled :
                     (ReadPayload(j) /\ PayloadOf(j) = PayloadOf(i)) =>
                        items[j] = items[i]
               /\ i = Len(items) =>
                     /\ dec.buffer = PayloadOf(i)
                     /\ dec.bufferLen = pulls[i].len

\* a message was pulled after a frame of another length and content
C29_Witness ==
    \E i \in Pulled :
        /\ i > 1
        /\ ReadPayload(i - 1)
        /\ pulls[i - 1].len.lo # pulls[i].len.lo
        /\ items[i].kind = "ok"
        /\ items[i - 1] # items[i]
        /\ i = Len(items) /\ dec.buffer = PayloadOf(i)

\* C30: on every target the length the decoder reads a payload with is the
\* full 64-bit value of the prefix, and a pull that read its payload read
\* exactly that many bytes.
C30_FullLength ==
    \A i \in Pulled :
        pulls[i].fail # "len" =>
            /\ pulls[i].len = pulls[i].prefix
            /\ ReadPayload(i) =>
                  /\ pulls[i].prefix.hi = 0
                  /\ pulls[i].stop - pulls[i].start - 8 = pulls[i].prefix.lo

====
